---- MODULE Spec2Model ----
(***************************************************************************)
(* GitHub Portfolio Analyzer (src/github_analyzer.py): the per-repository  *)
(* analysis pipeline of main(), the stack signal extractor                 *)
(* (_analyze_file_content), the complexity and category classifier         *)
(* (_estimate_complexity_and_category) and the statistics fold of          *)
(* generate_portfolio_report.                                              *)
(*                                                                         *)
(* Python values are represented as follows.                               *)
(*   dict            a function whose DOMAIN is the set of keys            *)
(*   list            a sequence                                            *)
(*   str             a string; a line of requirements.txt is a sequence of *)
(*                   symbols (the characters "=", ">", "~", " " and atomic *)
(*                   words), so that split() and strip() are computed      *)
(*   file content    a record whose field "kind" tells the file's shape    *)
(***************************************************************************)
EXTENDS Integers, Sequences, FiniteSets, TLC

VARIABLES
    pc,                 \* control position of main()
    repos,              \* main: the list returned by get_all_repositories
    analyses,           \* main: the list of finished analyses
    analysis,           \* analyze_repository_tech_stack: the dict under construction
    file_idx,           \* analyze_repository_tech_stack: position in the probe loop
    probed,             \* history: what the fetches for the current repository returned
    current_repo_size,  \* GitHubAnalyzer.current_repo_size (Unset until first assigned)
    complexity_score,   \* _estimate_complexity_and_category: its local, as last computed
    aggregate,          \* generate_portfolio_report: the counters after the fold
    card,               \* main: the Counters built for the developer card
    exit_code,          \* process exit status ("running" until the process ends)
    token,              \* the credentials the process was started with
    pager               \* get_all_repositories: the locals of its page loop

vars == <<pc, repos, analyses, analysis, file_idx, probed, current_repo_size,
          complexity_score, aggregate, card, exit_code, token, pager>>

----------------------------------------------------------------------------
(* Bounds of the model *)

\* longest repository list get_all_repositories returns
MaxRepos == 2

\* most lines of a requirements.txt drawn as an extractor input
MaxLines == 3

\* most runs of the classifier on one record
MaxRuns == 2

----------------------------------------------------------------------------
(* Generic helpers for Python's list and dict operations *)

\* x in lst
InList(x, lst) == \E k \in 1..Len(lst) : lst[k] = x

\* any(x in lst for x in xs)
AnyIn(xs, lst) == \E x \in xs : InList(x, lst)

\* set(lst)
Elems(lst) == {lst[k] : k \in 1..Len(lst)}

\* sequences over S of length at most n
SeqsUpTo(S, n) == UNION {[1..k -> S] : k \in 0..n}

\* str.lower() on the strings that occur as primary languages and labels
Lower(s) ==
    CASE s = "TypeScript" -> "typescript"
      [] s = "JavaScript" -> "javascript"
      [] s = "Python" -> "python"
      [] s = "Go" -> "go"
      [] s = "Rust" -> "rust"
      [] s = "C++" -> "c++"
      [] s = "HTML" -> "html"
      [] s = "CSS" -> "css"
      [] s = "Shell" -> "shell"
      [] s = "Unknown" -> "unknown"
      [] s = "React" -> "react"
      [] s = "Vue.js" -> "vue.js"
      [] s = "Angular" -> "angular"
      [] s = "Node.js Backend" -> "node.js backend"
      [] s = "Static Site Generator" -> "static site generator"
      [] s = "Django" -> "django"
      [] s = "Flask" -> "flask"
      [] s = "FastAPI" -> "fastapi"
      [] s = "Streamlit" -> "streamlit"
      [] s = "Data Science" -> "data science"
      [] s = "Machine Learning" -> "machine learning"
      [] s = "Gin (Go)" -> "gin (go)"
      [] s = "Gorilla Mux" -> "gorilla mux"
      [] s = "Actix Web" -> "actix web"
      [] s = "Rocket" -> "rocket"
      [] s = "Docker" -> "docker"
      [] s = "Docker Compose" -> "docker compose"
      [] OTHER -> s

\* [f.lower() for f in lst]
LowerAll(lst) == [k \in 1..Len(lst) |-> Lower(lst[k])]

----------------------------------------------------------------------------
(* _estimate_complexity_and_category *)

\* ComplexityScore reading the analyzer's attribute current_repo_size, as
\* get_repository_stats does, where the record's own size is meant
ComplexityScore_AnalyzerSize(a) ==
    LET lang_count == Cardinality(DOMAIN a.languages)
        framework_count == Len(a.frameworks)
        lang_term == IF lang_count * 10 < 30 THEN lang_count * 10 ELSE 30
        fw_term == IF framework_count * 15 < 45 THEN framework_count * 15 ELSE 45
        size_term == IF current_repo_size > 10000 THEN 30
                     ELSE IF current_repo_size > 1000 THEN 15 ELSE 0
        star_term == IF a.stars > 100 THEN 20
                     ELSE IF a.stars > 10 THEN 10 ELSE 0
    IN  lang_term + fw_term + size_term + star_term

\* ComplexityScore with max() written for min() in the language term
ComplexityScore_MaxLanguages(a) ==
    LET lang_count == Cardinality(DOMAIN a.languages)
        framework_count == Len(a.frameworks)
        lang_term == IF lang_count * 10 > 30 THEN lang_count * 10 ELSE 30
        fw_term == IF framework_count * 15 < 45 THEN framework_count * 15 ELSE 45
        size_term == IF a.size > 10000 THEN 30
                     ELSE IF a.size > 1000 THEN 15 ELSE 0
        star_term == IF a.stars > 100 THEN 20
                     ELSE IF a.stars > 10 THEN 10 ELSE 0
    IN  lang_term + fw_term + size_term + star_term

\* ComplexityScore with the star count itself, capped at 20, as popularity term
ComplexityScore_RawStars(a) ==
    LET lang_count == Cardinality(DOMAIN a.languages)
        framework_count == Len(a.frameworks)
        lang_term == IF lang_count * 10 < 30 THEN lang_count * 10 ELSE 30
        fw_term == IF framework_count * 15 < 45 THEN framework_count * 15 ELSE 45
        size_term == IF a.size > 10000 THEN 30
                     ELSE IF a.size > 1000 THEN 15 ELSE 0
        star_term == IF a.stars < 20 THEN a.stars ELSE 20
    IN  lang_term + fw_term + size_term + star_term

\* the local complexity_score after the four additions
ComplexityScore(a) ==
    LET lang_count == Cardinality(DOMAIN a.languages)
        framework_count == Len(a.frameworks)
        lang_term == IF lang_count * 10 < 30 THEN lang_count * 10 ELSE 30
        fw_term == IF framework_count * 15 < 45 THEN framework_count * 15 ELSE 45
        size_term == IF a.size > 10000 THEN 30
                     ELSE IF a.size > 1000 THEN 15 ELSE 0
        star_term == IF a.stars > 100 THEN 20
                     ELSE IF a.stars > 10 THEN 10 ELSE 0
    IN  lang_term + fw_term + size_term + star_term

\* ComplexityOf with the upper threshold exclusive
ComplexityOf_StrictHigh(score) ==
    IF score > 60 THEN "high"
    ELSE IF score >= 30 THEN "medium"
    ELSE "low"

\* the if/elif/else that sets analysis['complexity']
ComplexityOf(score) ==
    IF score >= 60 THEN "high"
    ELSE IF score >= 30 THEN "medium"
    ELSE "low"

\* CategoryOf with the backend frameworks tested before the frontend frameworks
CategoryOf_BackendFirst(a) ==
    LET primary_lang == Lower(a.primary_language)
        frameworks == LowerAll(a.frameworks)
    IN  IF AnyIn({"django", "flask", "fastapi", "node.js backend", "gin (go)",
                  "actix web"}, frameworks)
            THEN "backend"
        ELSE IF AnyIn({"react", "vue.js", "angular", "static site generator"}, frameworks)
            THEN "frontend"
        ELSE IF AnyIn({"data science", "machine learning"}, frameworks)
            THEN "data/ml"
        ELSE IF InList("docker", a.tools)
            THEN "devops"
        ELSE IF primary_lang \in {"javascript", "typescript", "html", "css"}
            THEN "frontend"
        ELSE IF primary_lang \in {"python", "java", "go", "rust", "c++"}
            THEN "backend"
        ELSE "other"

\* the if/elif chain that sets analysis['category']
CategoryOf(a) ==
    LET primary_lang == Lower(a.primary_language)
        frameworks == LowerAll(a.frameworks)
    IN  IF AnyIn({"react", "vue.js", "angular", "static site generator"}, frameworks)
            THEN "frontend"
        ELSE IF AnyIn({"django", "flask", "fastapi", "node.js backend", "gin (go)",
                       "actix web"}, frameworks)
            THEN "backend"
        ELSE IF AnyIn({"data science", "machine learning"}, frameworks)
            THEN "data/ml"
        ELSE IF InList("docker", a.tools)
            THEN "devops"
        ELSE IF primary_lang \in {"javascript", "typescript", "html", "css"}
            THEN "frontend"
        ELSE IF primary_lang \in {"python", "java", "go", "rust", "c++"}
            THEN "backend"
        ELSE "other"

\* _estimate_complexity_and_category keeping the lowercased framework list
\* in the record
_estimate_complexity_and_category_LowerInPlace(a) ==
    [a EXCEPT !.frameworks = LowerAll(@),
              !.complexity = ComplexityOf(ComplexityScore(a)),
              !.category = CategoryOf(a)]

\* the whole function: the dict it returns
_estimate_complexity_and_category(a) ==
    [a EXCEPT !.complexity = ComplexityOf(ComplexityScore(a)),
              !.category = CategoryOf(a)]

----------------------------------------------------------------------------
(* File contents *)

\* Python's None, as get_file_content returns it
None == [kind |-> "None"]

\* a decoded package.json: json is "invalid" (json.loads raises JSONDecodeError),
\* "object" (a JSON object) or "other" (any other JSON value); for an object,
\* dependencies and devDependencies are [obj |-> whether the value is a JSON
\* object (a missing key counts, by .get's default {}), keys |-> its keys]
JsonText(json, deps, dev) ==
    [kind |-> "str", empty |-> FALSE, json |-> json,
     dependencies |-> deps, devDependencies |-> dev]

\* a JSON object with the given keys
Obj(keys) == [obj |-> TRUE, keys |-> keys]

\* a JSON value that is no object (null, a list, a string)
NotObj == [obj |-> FALSE, keys |-> {}]

\* a decoded requirements.txt: the lines of content.strip().split('\n'), each a
\* sequence of symbols
LinesText(lines) == [kind |-> "str", empty |-> FALSE, lines |-> lines]

\* any other decoded text: the set of marker substrings that occur in it
PlainText(markers) == [kind |-> "str", empty |-> FALSE, markers |-> markers]

\* the empty string '': json.loads('') raises JSONDecodeError, ''.split('\n')
\* is one empty line, and no marker occurs in it
EmptyText ==
    [kind |-> "str", empty |-> TRUE, json |-> "invalid",
     dependencies |-> Obj({}), devDependencies |-> Obj({}),
     lines |-> << <<>> >>, markers |-> {}]

\* the test "if content:" taken as "if content is not None:"
Truthy_NotNone(c) == c.kind = "str"

\* bool(content), the test of "if content:"
Truthy(c) == c.kind = "str" /\ ~c.empty

----------------------------------------------------------------------------
(* _analyze_file_content *)

\* index of the first occurrence of the two-character operator c1 c2 in line,
\* 0 when there is none
FindOp(line, c1, c2) ==
    LET hits == {k \in 1..(Len(line) - 1) : line[k] = c1 /\ line[k + 1] = c2}
    IN  IF hits = {} THEN 0 ELSE CHOOSE k \in hits : \A h \in hits : k <= h

\* line.split(c1 + c2)[0]
SplitFirst(line, c1, c2) ==
    LET k == FindOp(line, c1, c2)
    IN  IF k = 0 THEN line ELSE SubSeq(line, 1, k - 1)

\* str.strip() for the whitespace symbol " "
Strip(line) ==
    LET keep == {k \in 1..Len(line) : line[k] # " "}
    IN  IF keep = {} THEN <<>>
        ELSE LET lo == CHOOSE k \in keep : \A h \in keep : k <= h
                 hi == CHOOSE k \in keep : \A h \in keep : k >= h
             IN  SubSeq(line, lo, hi)

\* PackageOf without the final .strip()
PackageOf_NoStrip(line) ==
    SplitFirst(SplitFirst(SplitFirst(line, "=", "="), ">", "="), "~", "=")

\* line.split('==')[0].split('>=')[0].split('~=')[0].strip()
PackageOf(line) ==
    Strip(SplitFirst(SplitFirst(SplitFirst(line, "=", "="), ">", "="), "~", "="))

\* the if/elif chain on package: the labels one line appends
LineFrameworks(line) ==
    LET package == PackageOf(line)
    IN  IF package \in {<<"django">>, <<"Django">>} THEN <<"Django">>
        ELSE IF package \in {<<"flask">>, <<"Flask">>} THEN <<"Flask">>
        ELSE IF package \in {<<"fastapi">>, <<"FastAPI">>} THEN <<"FastAPI">>
        ELSE IF package \in {<<"streamlit">>} THEN <<"Streamlit">>
        ELSE IF package \in {<<"pandas">>, <<"numpy">>, <<"scipy">>} THEN <<"Data Science">>
        ELSE IF package \in {<<"tensorflow">>, <<"torch">>, <<"pytorch">>}
            THEN <<"Machine Learning">>
        ELSE <<>>

\* the local list frameworks after the loop over lines
RECURSIVE RequirementsFrameworks(_)
RequirementsFrameworks(lines) ==
    IF lines = <<>> THEN <<>>
    ELSE LineFrameworks(Head(lines)) \o RequirementsFrameworks(Tail(lines))

\* PackageJsonFrameworks with all() written for any() in the React test
PackageJsonFrameworks_AllReact(deps) ==
    (IF {"react", "@types/react"} \subseteq deps THEN <<"React">> ELSE <<>>)
    \o (IF deps \cap {"vue", "nuxt"} # {} THEN <<"Vue.js">> ELSE <<>>)
    \o (IF deps \cap {"angular", "@angular/core"} # {} THEN <<"Angular">> ELSE <<>>)
    \o (IF deps \cap {"express", "koa", "fastify"} # {} THEN <<"Node.js Backend">> ELSE <<>>)
    \o (IF deps \cap {"next", "gatsby"} # {} THEN <<"Static Site Generator">> ELSE <<>>)

\* the local list frameworks of the package.json branch; only deps is consulted
PackageJsonFrameworks(deps) ==
    (IF deps \cap {"react", "@types/react"} # {} THEN <<"React">> ELSE <<>>)
    \o (IF deps \cap {"vue", "nuxt"} # {} THEN <<"Vue.js">> ELSE <<>>)
    \o (IF deps \cap {"angular", "@angular/core"} # {} THEN <<"Angular">> ELSE <<>>)
    \o (IF deps \cap {"express", "koa", "fastify"} # {} THEN <<"Node.js Backend">> ELSE <<>>)
    \o (IF deps \cap {"next", "gatsby"} # {} THEN <<"Static Site Generator">> ELSE <<>>)

\* whether the call raises: the package.json branch catches JSONDecodeError only,
\* so .get on a non-object and .keys() on a non-object escape (AttributeError)
AnalyzeFileContentRaises(filename, content) ==
    /\ filename = "package.json"
    /\ content.json # "invalid"
    /\ \/ content.json # "object"
       \/ ~content.dependencies.obj
       \/ ~content.devDependencies.obj

\* _analyze_file_content with the requirements.txt branch assigning its local
\* list and ['pip'] to the dict's keys where the code extends the dict's lists
_analyze_file_content_Replace(a, filename, content) ==
    IF filename = "package.json" THEN
        IF content.json = "invalid" THEN a
        ELSE [a EXCEPT
                !.frameworks = @ \o PackageJsonFrameworks(content.dependencies.keys),
                !.tools = @ \o <<"npm/yarn">>]
    ELSE IF filename = "requirements.txt" THEN
        [a EXCEPT !.frameworks = RequirementsFrameworks(content.lines),
                  !.tools = <<"pip">>]
    ELSE IF filename \in {"go.mod"} THEN
        [a EXCEPT
            !.frameworks = @ \o (IF "gin-gonic/gin" \in content.markers
                                 THEN <<"Gin (Go)">> ELSE <<>>)
                             \o (IF "gorilla/mux" \in content.markers
                                 THEN <<"Gorilla Mux">> ELSE <<>>),
            !.tools = @ \o <<"Go Modules">>]
    ELSE IF filename = "Cargo.toml" THEN
        [a EXCEPT
            !.frameworks = @ \o (IF "actix-web" \in content.markers
                                 THEN <<"Actix Web">> ELSE <<>>)
                             \o (IF "rocket" \in content.markers
                                 THEN <<"Rocket">> ELSE <<>>),
            !.tools = @ \o <<"Cargo">>]
    ELSE IF filename = "Dockerfile" THEN
        [a EXCEPT !.tools = @ \o <<"Docker">>]
    ELSE IF filename = "docker-compose.yml" THEN
        [a EXCEPT !.tools = @ \o <<"Docker Compose">>]
    ELSE a

\* _analyze_file_content with elif for the second marker test of go.mod and of
\* Cargo.toml
_analyze_file_content_ElifMarker(a, filename, content) ==
    IF filename = "package.json" THEN
        IF content.json = "invalid" THEN a
        ELSE [a EXCEPT
                !.frameworks = @ \o PackageJsonFrameworks(content.dependencies.keys),
                !.tools = @ \o <<"npm/yarn">>]
    ELSE IF filename = "requirements.txt" THEN
        [a EXCEPT !.frameworks = @ \o RequirementsFrameworks(content.lines),
                  !.tools = @ \o <<"pip">>]
    ELSE IF filename \in {"go.mod"} THEN
        [a EXCEPT
            !.frameworks = @ \o (IF "gin-gonic/gin" \in content.markers
                                 THEN <<"Gin (Go)">>
                                 ELSE IF "gorilla/mux" \in content.markers
                                 THEN <<"Gorilla Mux">> ELSE <<>>),
            !.tools = @ \o <<"Go Modules">>]
    ELSE IF filename = "Cargo.toml" THEN
        [a EXCEPT
            !.frameworks = @ \o (IF "actix-web" \in content.markers
                                 THEN <<"Actix Web">>
                                 ELSE IF "rocket" \in content.markers
                                 THEN <<"Rocket">> ELSE <<>>),
            !.tools = @ \o <<"Cargo">>]
    ELSE IF filename = "Dockerfile" THEN
        [a EXCEPT !.tools = @ \o <<"Docker">>]
    ELSE IF filename = "docker-compose.yml" THEN
        [a EXCEPT !.tools = @ \o <<"Docker Compose">>]
    ELSE a

\* the dict the call returns when it does not raise
_analyze_file_content(a, filename, content) ==
    IF filename = "package.json" THEN
        IF content.json = "invalid" THEN a
        ELSE [a EXCEPT
                !.frameworks = @ \o PackageJsonFrameworks(content.dependencies.keys),
                !.tools = @ \o <<"npm/yarn">>]
    ELSE IF filename = "requirements.txt" THEN
        [a EXCEPT !.frameworks = @ \o RequirementsFrameworks(content.lines),
                  !.tools = @ \o <<"pip">>]
    ELSE IF filename \in {"go.mod"} THEN
        [a EXCEPT
            !.frameworks = @ \o (IF "gin-gonic/gin" \in content.markers
                                 THEN <<"Gin (Go)">> ELSE <<>>)
                             \o (IF "gorilla/mux" \in content.markers
                                 THEN <<"Gorilla Mux">> ELSE <<>>),
            !.tools = @ \o <<"Go Modules">>]
    ELSE IF filename = "Cargo.toml" THEN
        [a EXCEPT
            !.frameworks = @ \o (IF "actix-web" \in content.markers
                                 THEN <<"Actix Web">> ELSE <<>>)
                             \o (IF "rocket" \in content.markers
                                 THEN <<"Rocket">> ELSE <<>>),
            !.tools = @ \o <<"Cargo">>]
    ELSE IF filename = "Dockerfile" THEN
        [a EXCEPT !.tools = @ \o <<"Docker">>]
    ELSE IF filename = "docker-compose.yml" THEN
        [a EXCEPT !.tools = @ \o <<"Docker Compose">>]
    ELSE a

----------------------------------------------------------------------------
(* generate_portfolio_report: the statistics fold *)

\* Counter: c[k] += n (a missing key counts from 0)
CounterAdd(c, k, n) ==
    IF k \in DOMAIN c THEN [c EXCEPT ![k] = @ + n] ELSE c @@ (k :> n)

\* Counter: c[k] = n, the assignment written for +=
CounterSet(c, k, n) ==
    IF k \in DOMAIN c THEN [c EXCEPT ![k] = n] ELSE c @@ (k :> n)

\* AddLanguages with languages[lang] = bytes_count
RECURSIVE AddLanguages_Assign(_, _, _)
AddLanguages_Assign(c, d, keys) ==
    IF keys = {} THEN c
    ELSE LET lang == CHOOSE k \in keys : TRUE
         IN  AddLanguages_Assign(CounterSet(c, lang, d[lang]), d, keys \ {lang})

\* AddLanguages with languages[lang] += 1, a count of repositories
RECURSIVE AddLanguages_CountRepos(_, _, _)
AddLanguages_CountRepos(c, d, keys) ==
    IF keys = {} THEN c
    ELSE LET lang == CHOOSE k \in keys : TRUE
         IN  AddLanguages_CountRepos(CounterAdd(c, lang, 1), d, keys \ {lang})

\* for lang, bytes_count in d.items(): languages[lang] += bytes_count
RECURSIVE AddLanguages(_, _, _)
AddLanguages(c, d, keys) ==
    IF keys = {} THEN c
    ELSE LET lang == CHOOSE k \in keys : TRUE
         IN  AddLanguages(CounterAdd(c, lang, d[lang]), d, keys \ {lang})

\* for framework in lst: frameworks[framework] += 1
RECURSIVE AddFrameworks(_, _)
AddFrameworks(c, lst) ==
    IF lst = <<>> THEN c
    ELSE AddFrameworks(CounterAdd(c, Head(lst), 1), Tail(lst))

\* the counters before the loop
EmptyAggregate ==
    [total_repos |-> 0, languages |-> <<>>, frameworks |-> <<>>, categories |-> <<>>,
     complexities |-> <<>>, total_stars |-> 0, total_forks |-> 0]

\* one iteration of "for analysis in analyses"
AggregateStep(agg, a) ==
    [agg EXCEPT
        !.languages = AddLanguages(@, a.languages, DOMAIN a.languages),
        !.frameworks = AddFrameworks(@, a.frameworks),
        !.categories = CounterAdd(@, a.category, 1),
        !.complexities = CounterAdd(@, a.complexity, 1),
        !.total_stars = @ + a.stars,
        !.total_forks = @ + a.forks]

\* the loop over analyses, from the counters agg
RECURSIVE AggregateFrom(_, _)
AggregateFrom(agg, lst) ==
    IF lst = <<>> THEN agg
    ELSE AggregateFrom(AggregateStep(agg, Head(lst)), Tail(lst))

\* the statistics generate_portfolio_report computes for analyses
PortfolioAggregate(lst) ==
    AggregateFrom([EmptyAggregate EXCEPT !.total_repos = Len(lst)], lst)

\* main's own loop for the developer card: languages and frameworks only
RECURSIVE CardCountersFrom(_, _)
CardCountersFrom(c, lst) ==
    IF lst = <<>> THEN c
    ELSE LET a == Head(lst)
         IN  CardCountersFrom(
                 [languages |-> AddLanguages(c.languages, a.languages, DOMAIN a.languages),
                  frameworks |-> AddFrameworks(c.frameworks, a.frameworks)],
                 Tail(lst))

\* the two Counters main hands to generate_developer_card_html
CardCounters(lst) == CardCountersFrom([languages |-> <<>>, frameworks |-> <<>>], lst)

----------------------------------------------------------------------------
(* The GitHub side: what the API serves when a request succeeds *)

\* a repository dict of GET /user/repos; has_owner tells whether repo['owner']['login']
\* exists, has_name whether repo['name'] does; language "" stands for JSON null
RepoDict(name, language, size, stars, forks) ==
    [has_owner |-> TRUE, has_name |-> TRUE, name |-> name, language |-> language,
     size |-> size, stargazers_count |-> stars, forks_count |-> forks]

TsApp == RepoDict("ts-app", "TypeScript", 15000, 150, 12)
MlLab == RepoDict("ml-lab", "Python", 1001, 11, 2)
OpsBox == RepoDict("ops-box", "Shell", 500, 0, 0)
FullStack == RepoDict("fullstack", "JavaScript", 10001, 101, 7)
Odd == RepoDict("odd", "", 0, 3, 1)
NoOwner == [RepoDict("no-owner", "Go", 40, 0, 0) EXCEPT !.has_owner = FALSE]

\* the repositories the account may hold
WorldRepos == {TsApp, MlLab, OpsBox, FullStack, Odd, NoOwner}

\* GET /repos/{owner}/{repo}/languages
WorldLanguages(name) ==
    CASE name = "ts-app" -> [l \in {"TypeScript", "CSS"} |->
                                IF l = "TypeScript" THEN 90000 ELSE 10000]
      [] name = "ml-lab" -> [l \in {"Python", "TypeScript"} |->
                                IF l = "Python" THEN 5000 ELSE 700]
      [] name = "fullstack" -> [l \in {"JavaScript", "Python", "Go", "CSS"} |->
                                IF l = "JavaScript" THEN 4000
                                ELSE IF l = "Python" THEN 5000
                                ELSE IF l = "Go" THEN 1 ELSE 250]
      [] OTHER -> <<>>

\* the response body of GET /repos/{owner}/{repo}/contents/{path} for a path that
\* exists: type, size in bytes, whether the base64 body decodes, the decoded text
FileData(type, size, decodes, content) ==
    [found |-> TRUE, type |-> type, size |-> size, decodes |-> decodes,
     content |-> content]

\* a path that does not exist (404)
NotFound == [found |-> FALSE]

\* GET /repos/{owner}/{repo}/contents/{path}
WorldFile(name, path) ==
    CASE name = "ts-app" /\ path = "package.json" ->
            FileData("file", 320, TRUE, JsonText("object", Obj({"react"}), Obj({})))
      [] name = "ml-lab" /\ path = "requirements.txt" ->
            FileData("file", 40, TRUE,
                     LinesText(<< <<"pandas">>, <<"numpy", "=", "=", "1.26">> >>))
      [] name = "ops-box" /\ path = "Dockerfile" ->
            FileData("file", 150, TRUE, PlainText({}))
      [] name = "ops-box" /\ path = "docker-compose.yml" ->
            FileData("file", 90, TRUE, PlainText({}))
      [] name = "ops-box" /\ path = "Cargo.toml" ->
            FileData("file", 0, TRUE, EmptyText)
      [] name = "ops-box" /\ path = "go.mod" ->
            FileData("file", 50000, TRUE, PlainText({"gorilla/mux"}))
      [] name = "fullstack" /\ path = "package.json" ->
            FileData("file", 800, TRUE,
                     JsonText("object", Obj({"express"}), Obj({"react"})))
      [] name = "fullstack" /\ path = "requirements.txt" ->
            FileData("file", 30, TRUE,
                     LinesText(<< <<" ", "flask", " ", ">", "=", "2.0">> >>))
      [] name = "odd" /\ path = "package.json" ->
            FileData("file", 25, TRUE, JsonText("object", NotObj, Obj({})))
      [] name = "odd" /\ path = "go.mod" ->
            FileData("dir", 0, TRUE, EmptyText)
      [] name = "odd" /\ path = "Dockerfile" ->
            FileData("file", 60, TRUE, PlainText({}))
      [] name = "ml-lab" /\ path = "Cargo.toml" ->
            FileData("file", 200, FALSE, PlainText({"rocket"}))
      [] OTHER -> NotFound

\* what the root listing shows: README present, a test file present, a Dockerfile
WorldListing(name) ==
    [readme |-> name \in {"fullstack"},
     tests |-> name \in {"fullstack"},
     dockerfile |-> LET f == WorldFile(name, "Dockerfile")
                    IN  f.found /\ f.type = "file"]

----------------------------------------------------------------------------
(* GitHubAnalyzer's fetching methods; ok tells whether the HTTP request came back
   with a 2xx status (no network error, no error status) *)

\* get_repository_languages: {} when the request fails
get_repository_languages(name, ok) == IF ok THEN WorldLanguages(name) ELSE <<>>

\* get_file_content with size <= 50000 for the test size < 50000
get_file_content_AtMost(name, path, ok) ==
    LET file_data == WorldFile(name, path)
    IN  IF ok /\ file_data.found /\ file_data.type = "file" /\ file_data.size <= 50000
           /\ file_data.decodes
        THEN file_data.content
        ELSE None

\* get_file_content: None unless a regular file under 50000 bytes was fetched and
\* decoded. The texts of this model are shorter than 10000 characters, so
\* content[:10000] returns them whole.
get_file_content(name, path, ok) ==
    LET file_data == WorldFile(name, path)
    IN  IF ok /\ file_data.found /\ file_data.type = "file" /\ file_data.size < 50000
           /\ file_data.decodes
        THEN file_data.content
        ELSE None

\* the attribute current_repo_size has no value before the first analysis
Unset == -1

\* get_repository_stats: outcome is "ok" (status 200), "status" (another status)
\* or "raises" (the request or the handling of its body raises, before any key of
\* stats is assigned)
get_repository_stats(name, outcome, repo_size_attr) ==
    LET listing == WorldListing(name)
        repo_size == IF repo_size_attr = Unset THEN 100 ELSE repo_size_attr
        estimate == IF repo_size \div 10 > 1 THEN repo_size \div 10 ELSE 1
    IN  [commit_count |-> IF outcome = "raises" THEN 0 ELSE estimate,
         contributors_count |-> 0,
         branches_count |-> 0,
         readme_exists |-> outcome = "ok" /\ listing.readme,
         has_tests |-> outcome = "ok" /\ listing.tests,
         has_ci |-> outcome = "ok" /\ listing.dockerfile]

----------------------------------------------------------------------------
(* analyze_repository_tech_stack *)

\* tech_stack_files + config_files
ProbeFiles ==
    <<"package.json", "requirements.txt", "go.mod", "Cargo.toml",
      "docker-compose.yml", "Dockerfile">>

\* the dict built from the repository record; description, created_at, updated_at
\* and topics are copied through and read by none of the modelled operations
InitialAnalysis(repo) ==
    [name |-> repo.name,
     primary_language |-> IF repo.language = "" THEN "Unknown" ELSE repo.language,
     size |-> repo.size,
     stars |-> repo.stargazers_count,
     forks |-> repo.forks_count,
     languages |-> <<>>,
     frameworks |-> <<>>,
     tools |-> <<>>,
     complexity |-> "low",
     category |-> "other"]

\* DefaultAnalysis without the key 'category'
DefaultAnalysis_NoCategory(name) ==
    [name |-> name, primary_language |-> "Unknown", size |-> 0, stars |-> 0,
     forks |-> 0, languages |-> <<>>, frameworks |-> <<>>, tools |-> <<>>,
     complexity |-> "low"]

\* the dict the except branch returns
DefaultAnalysis(name) ==
    [name |-> name, primary_language |-> "Unknown", size |-> 0, stars |-> 0,
     forks |-> 0, languages |-> <<>>, frameworks |-> <<>>, tools |-> <<>>,
     complexity |-> "low", category |-> "other"]

\* no analysis in progress
NoAnalysis == [name |-> ""]

\* nothing fetched yet for the current repository
NothingProbed == [languages |-> <<>>, contents |-> <<>>]

----------------------------------------------------------------------------
(* The credentials of a run: arg is whether --token was given, env whether
   GITHUB_TOKEN is set once the .env file has been loaded *)

NoToken == [arg |-> FALSE, env |-> FALSE]
EnvToken == [arg |-> FALSE, env |-> TRUE]

\* the page loop is not running
NoPager == [state |-> "idle"]

----------------------------------------------------------------------------
(* main(): one action per step of the run *)

Init ==
    /\ pc = "start"
    /\ token \in {NoToken, EnvToken}
    /\ pager = NoPager
    /\ repos = <<>>
    /\ analyses = <<>>
    /\ analysis = NoAnalysis
    /\ file_idx = 0
    /\ probed = NothingProbed
    /\ current_repo_size = Unset
    /\ complexity_score = -1
    /\ aggregate = EmptyAggregate
    /\ card = [languages |-> <<>>, frameworks |-> <<>>]
    /\ exit_code = "running"

\* sys.exit(1), from the token check or from one of main's except clauses
Exit1 ==
    /\ pc' = "exited"
    /\ exit_code' = "1"

\* CheckToken with the messages printed and the sys.exit(1) left out
CheckToken_NoExit ==
    /\ pc = "start"
    /\ pc' = "get_user_info"
    /\ exit_code' = exit_code
    /\ UNCHANGED <<token, pager, repos, analyses, analysis, file_idx, probed,
                   current_repo_size, complexity_score, aggregate, card>>

\* token = args.token or os.getenv('GITHUB_TOKEN'); exit when there is none
CheckToken ==
    /\ pc = "start"
    /\ IF token.arg \/ token.env
       THEN pc' = "get_user_info" /\ exit_code' = exit_code
       ELSE Exit1
    /\ UNCHANGED <<token, pager, repos, analyses, analysis, file_idx, probed, current_repo_size,
                   complexity_score, aggregate, card>>

\* analyzer.get_user_info(): raise_for_status propagates to main's except clause
GetUserInfo ==
    /\ pc = "get_user_info"
    /\ \E ok \in BOOLEAN :
          IF ok THEN pc' = "get_all_repositories" /\ exit_code' = exit_code
          ELSE Exit1
    /\ UNCHANGED <<token, pager, repos, analyses, analysis, file_idx, probed, current_repo_size,
                   complexity_score, aggregate, card>>

\* analyzer.get_all_repositories(args.max_repos): the list it returns, or a failed
\* page request, which propagates to main's except clause
GetAllRepositories ==
    /\ pc = "get_all_repositories"
    /\ \/ \E lst \in SeqsUpTo(WorldRepos, MaxRepos) :
             /\ repos' = lst
             /\ pc' = "loop"
             /\ exit_code' = exit_code
       \/ /\ Exit1
          /\ repos' = repos
    /\ UNCHANGED <<token, pager, analyses, analysis, file_idx, probed, current_repo_size,
                   complexity_score, aggregate, card>>

\* the repository the loop is at
CurrentRepo == repos[Len(analyses) + 1]

\* the loop takes the next repository: the print reads repo['name'], the try block
\* reads repo['owner']['login'] and repo['name'] and builds the dict. A KeyError
\* in the print reaches main's except clause; a KeyError in the try block enters
\* the handler, whose print reads the unbound local name, and that error reaches
\* main's except clause too.
BeginAnalysis ==
    /\ pc = "loop"
    /\ Len(analyses) < Len(repos)
    /\ IF CurrentRepo.has_name /\ CurrentRepo.has_owner
       THEN /\ analysis' = InitialAnalysis(CurrentRepo)
            /\ pc' = "languages"
            /\ exit_code' = exit_code
       ELSE /\ Exit1
            /\ analysis' = analysis
    /\ probed' = NothingProbed
    /\ UNCHANGED <<token, pager, repos, analyses, file_idx, current_repo_size, complexity_score,
                   aggregate, card>>

\* languages = self.get_repository_languages(owner, name)
FetchLanguages ==
    /\ pc = "languages"
    /\ \E ok \in BOOLEAN :
          LET languages == get_repository_languages(analysis.name, ok)
          IN  /\ analysis' = [analysis EXCEPT !.languages = languages]
              /\ probed' = [probed EXCEPT !.languages = languages]
    /\ pc' = "stats"
    /\ UNCHANGED <<token, pager, repos, analyses, file_idx, current_repo_size, complexity_score,
                   aggregate, card, exit_code>>

\* self.current_repo_size = analysis['size']; analysis.update(get_repository_stats())
FetchStats ==
    /\ pc = "stats"
    /\ current_repo_size' = analysis.size
    /\ \E outcome \in {"ok", "status", "raises"} :
          analysis' = get_repository_stats(analysis.name, outcome, analysis.size)
                      @@ analysis
    /\ file_idx' = 1
    /\ pc' = "probe"
    /\ UNCHANGED <<token, pager, repos, analyses, probed, complexity_score, aggregate, card,
                   exit_code>>

\* one iteration of the loop over tech_stack_files + config_files, given what
\* get_file_content returned; an exception of _analyze_file_content makes the
\* function return the except branch's dict
ProbeStep(content) ==
    LET file_name == ProbeFiles[file_idx]
    IN  /\ probed' = [probed EXCEPT !.contents = Append(@, content)]
        /\ IF Truthy(content) /\ AnalyzeFileContentRaises(file_name, content)
           THEN /\ analyses' = Append(analyses, DefaultAnalysis(analysis.name))
                /\ analysis' = NoAnalysis
                /\ file_idx' = 0
                /\ pc' = "loop"
           ELSE /\ analysis' = IF Truthy(content)
                               THEN _analyze_file_content(analysis, file_name, content)
                               ELSE analysis
                /\ analyses' = analyses
                /\ file_idx' = IF file_idx = Len(ProbeFiles) THEN 0 ELSE file_idx + 1
                /\ pc' = IF file_idx = Len(ProbeFiles) THEN "classify" ELSE "probe"
        /\ UNCHANGED <<token, pager, repos, current_repo_size, complexity_score, aggregate, card,
                       exit_code>>

\* content = self.get_file_content(owner, name, file_name), then the iteration
ProbeFile ==
    /\ pc = "probe"
    /\ \E ok \in BOOLEAN :
          ProbeStep(get_file_content(analysis.name, ProbeFiles[file_idx], ok))

\* analysis = self._estimate_complexity_and_category(analysis)
Classify ==
    /\ pc = "classify"
    /\ complexity_score' = ComplexityScore(analysis)
    /\ analysis' = _estimate_complexity_and_category(analysis)
    /\ pc' = "return"
    /\ UNCHANGED <<token, pager, repos, analyses, file_idx, probed, current_repo_size, aggregate,
                   card, exit_code>>

\* return analysis; analyses.append(analysis)
ReturnAnalysis ==
    /\ pc = "return"
    /\ analyses' = Append(analyses, analysis)
    /\ analysis' = NoAnalysis
    /\ pc' = "loop"
    /\ UNCHANGED <<token, pager, repos, file_idx, probed, current_repo_size, complexity_score,
                   aggregate, card, exit_code>>

\* the loop is over: report = analyzer.generate_portfolio_report(analyses)
GenerateReport ==
    /\ pc = "loop"
    /\ Len(analyses) = Len(repos)
    /\ aggregate' = PortfolioAggregate(analyses)
    /\ pc' = "card"
    /\ UNCHANGED <<token, pager, repos, analyses, analysis, file_idx, probed, current_repo_size,
                   complexity_score, card, exit_code>>

\* the Counters for the developer card; the run ends normally
BuildCard ==
    /\ pc = "card"
    /\ card' = CardCounters(analyses)
    /\ pc' = "exited"
    /\ exit_code' = "0"
    /\ UNCHANGED <<token, pager, repos, analyses, analysis, file_idx, probed, current_repo_size,
                   complexity_score, aggregate>>

Next ==
    \/ CheckToken
    \/ GetUserInfo
    \/ GetAllRepositories
    \/ BeginAnalysis
    \/ FetchLanguages
    \/ FetchStats
    \/ ProbeFile
    \/ Classify
    \/ ReturnAnalysis
    \/ GenerateReport
    \/ BuildCard

Spec == Init /\ [][Next]_vars

----------------------------------------------------------------------------
(* The start of a run, from either entry point and with any credentials, up to
   the fetch of the repository list *)

TokenInputs == [arg : BOOLEAN, env : BOOLEAN]

\* scripts/analyze.py main_wrapper: it reads the .env file into the environment,
\* returns 1 when GITHUB_TOKEN is not set, and calls main() otherwise
MainWrapper ==
    /\ pc = "wrapper"
    /\ IF token.env
       THEN pc' = "start" /\ exit_code' = exit_code
       ELSE pc' = "exited" /\ exit_code' = "1"
    /\ UNCHANGED <<token, pager, repos, analyses, analysis, file_idx, probed,
                   current_repo_size, complexity_score, aggregate, card>>

InitStartup ==
    /\ pc \in {"wrapper", "start"}
    /\ token \in TokenInputs
    /\ pager = NoPager
    /\ repos = <<>>
    /\ analyses = <<>>
    /\ analysis = NoAnalysis
    /\ file_idx = 0
    /\ probed = NothingProbed
    /\ current_repo_size = Unset
    /\ complexity_score = -1
    /\ aggregate = EmptyAggregate
    /\ card = [languages |-> <<>>, frameworks |-> <<>>]
    /\ exit_code = "running"

NextStartup ==
    \/ MainWrapper
    \/ CheckToken
    \/ GetUserInfo
    \/ GetAllRepositories

SpecStartup == InitStartup /\ [][NextStartup]_vars

----------------------------------------------------------------------------
(* The classifier as a function of its argument: records drawn from bounded sets.
   A record is built the way analyze_repository_tech_stack builds it, from a
   repository dict, a languages dict and the extractor applied to file contents,
   so that only frameworks and tools lists the extractor can produce are drawn. *)

\* the loop over the probe files from position k, without the except branch
RECURSIVE ApplyProbes(_, _, _)
ApplyProbes(a, contents, k) ==
    IF k > Len(ProbeFiles) THEN a
    ELSE ApplyProbes(IF Truthy(contents[k])
                     THEN _analyze_file_content(a, ProbeFiles[k], contents[k])
                     ELSE a,
                     contents, k + 1)

\* repository sizes and star counts on both sides of each threshold
ThresholdSizes == {0, 1000, 1001, 10000, 10001}
ThresholdStars == {0, 10, 11, 100, 101}

\* languages dicts of 0, 1, 2, 3 and 4 keys
LanguageDicts ==
    {[l \in S |-> 100] : S \in {{}, {"Python"}, {"TypeScript", "CSS"},
                                {"Python", "CSS", "HTML"},
                                {"Python", "CSS", "HTML", "Shell"}}}

\* primary languages: one per language rule, in mixed case, and two matching none
PrimaryLanguages == {"TypeScript", "HTML", "Python", "C++", "Shell", ""}

\* contents of package.json, requirements.txt, Cargo.toml and Dockerfile
PackageJsonTexts ==
    {None} \cup {JsonText("object", Obj(d), Obj({})) : d \in SUBSET {"react", "express"}}
RequirementsLines == {<<"django">>, <<"pandas">>, <<"numpy", "=", "=", "1.26">>}
RequirementsTexts ==
    {None} \cup {LinesText(l) : l \in SeqsUpTo(RequirementsLines, MaxLines) \ {<<>>}}
CargoTexts == {None, PlainText({}), PlainText({"rocket"})}
DockerfileTexts == {None, PlainText({})}

\* the probe results, in the order of ProbeFiles
ProbeResults ==
    {<<pj, req, None, cargo, None, docker>> :
        pj \in PackageJsonTexts, req \in RequirementsTexts,
        cargo \in CargoTexts, docker \in DockerfileTexts}

\* the dict handed to the classifier for one repository, languages and probe results
ClassifierInput(repo, languages, contents) ==
    ApplyProbes([get_repository_stats(repo.name, "status", repo.size)
                 @@ InitialAnalysis(repo) EXCEPT !.languages = languages],
                contents, 1)

\* inputs that vary what the score reads
ScoreInputs ==
    {ClassifierInput(RepoDict("repo", "", size, stars, 0), languages, contents) :
        size \in ThresholdSizes, stars \in ThresholdStars,
        languages \in LanguageDicts, contents \in ProbeResults}

\* inputs that vary what the category reads
CategoryInputs ==
    {ClassifierInput(RepoDict("repo", language, 0, 0, 0), <<>>, contents) :
        language \in PrimaryLanguages, contents \in ProbeResults}

InitClassify ==
    /\ pc = "classify"
    /\ analysis \in ScoreInputs \cup CategoryInputs
    /\ repos = <<>>
    /\ analyses = <<>>
    /\ file_idx = 0
    /\ probed = NothingProbed
    /\ current_repo_size = analysis.size
    /\ complexity_score = -1
    /\ aggregate = EmptyAggregate
    /\ card = [languages |-> <<>>, frameworks |-> <<>>]
    /\ token = EnvToken
    /\ pager = NoPager
    /\ exit_code = "running"

NextClassify == Classify

SpecClassify == InitClassify /\ [][NextClassify]_vars

----------------------------------------------------------------------------
(* The classifier run several times on records that agree on everything it is
   meant to read: each further run starts from the record of the first run with
   some earlier complexity and category left in it, in an analyzer whose
   current_repo_size is left over from some other repository. *)

\* values of current_repo_size left by earlier repositories
LeftoverSizes == {Unset, 0, 15000}

\* complexity and category values left in a record by an earlier classification
PreviousResults == {<<"low", "other">>, <<"high", "devops">>, <<"medium", "data/ml">>}

\* the records of the first run
DeterminismInputs ==
    {ClassifierInput(RepoDict("repo", language, size, stars, 0), languages,
                     <<pj, req, None, None, None, docker>>) :
        language \in {"TypeScript", "Python", ""},
        size \in {0, 10001}, stars \in {0, 101},
        languages \in {[l \in S |-> 100] : S \in {{}, {"Python", "CSS", "HTML"}}},
        pj \in {None, JsonText("object", Obj({"react"}), Obj({})),
                JsonText("object", Obj({"express"}), Obj({}))},
        req \in {None, LinesText(<< <<"pandas">> >>), LinesText(<< <<"django">> >>)},
        docker \in DockerfileTexts}

InitDeterminism ==
    /\ pc = "classify"
    /\ analysis \in DeterminismInputs
    /\ repos = <<>>
    /\ analyses = <<>>
    /\ file_idx = 0
    /\ probed = NothingProbed
    /\ current_repo_size = analysis.size
    /\ complexity_score = -1
    /\ aggregate = EmptyAggregate
    /\ card = [languages |-> <<>>, frameworks |-> <<>>]
    /\ token = EnvToken
    /\ pager = NoPager
    /\ exit_code = "running"

\* the classifier is handed the first record again: as it was returned, or with
\* other previous results in it
RunAgain ==
    /\ pc = "loop"
    /\ Len(analyses) >= 1
    /\ Len(analyses) < MaxRuns
    /\ \/ analysis' = analyses[1]
       \/ \E prev \in PreviousResults :
             analysis' = [analyses[1] EXCEPT !.complexity = prev[1],
                                             !.category = prev[2]]
    /\ current_repo_size' \in LeftoverSizes
    /\ pc' = "classify"
    /\ UNCHANGED <<token, pager, repos, analyses, file_idx, probed, complexity_score, aggregate,
                   card, exit_code>>

NextDeterminism ==
    \/ Classify
    \/ ReturnAnalysis
    \/ RunAgain

SpecDeterminism == InitDeterminism /\ [][NextDeterminism]_vars

----------------------------------------------------------------------------
(* The extractor as a function of the file contents: analyze_repository_tech_stack
   from its loop over the candidate files on, for one repository whose files are
   drawn from bounded sets instead of being fetched. *)

\* at most this many of the six candidate files are present
MaxFiles == 2

\* at most this many lines in a drawn requirements.txt
MaxReqLines == 2

\* package.json texts: unparsable, parsed to a non-object, an object whose
\* "dependencies" or "devDependencies" is no object, and objects over these keys
DrawnDependencies ==
    {{}, {"react"}, {"@types/react", "nuxt"}, {"@angular/core"}, {"express"},
     {"fastify", "next"}, {"lodash"}}

DrawnPackageJson ==
    {JsonText("invalid", Obj({}), Obj({})),
     JsonText("other", NotObj, NotObj),
     JsonText("object", NotObj, Obj({})),
     JsonText("object", Obj({"express"}), NotObj)}
    \cup {JsonText("object", Obj(deps), Obj(dev)) :
             deps \in DrawnDependencies, dev \in {{}, {"react"}}}

\* requirements.txt lines: bare names, pinned names, padded names, a package
\* outside the table, and a name followed by the characters >==
DrawnLines ==
    {<<"django">>,
     <<"Flask", "=", "=", "2.0">>,
     <<" ", "fastapi", " ", ">", "=", "0.1">>,
     <<"streamlit", "~", "=", "1.0">>,
     <<"numpy">>,
     <<"torch", " ">>,
     <<"requests", "=", "=", "2">>,
     <<"flask", ">", "=", "=", "2">>}

DrawnRequirements == {LinesText(lines) : lines \in SeqsUpTo(DrawnLines, MaxReqLines) \ {<<>>}}

\* the texts of go.mod and of Cargo.toml, by the marker substrings in them
DrawnGoMod == {PlainText(m) : m \in SUBSET {"gin-gonic/gin", "gorilla/mux"}}
DrawnCargo == {PlainText(m) : m \in SUBSET {"actix-web", "rocket"}}

\* what get_file_content can return for file_name
DrawnContents(file_name) ==
    {None, EmptyText}
    \cup CASE file_name = "package.json" -> DrawnPackageJson
           [] file_name = "requirements.txt" -> DrawnRequirements
           [] file_name = "go.mod" -> DrawnGoMod
           [] file_name = "Cargo.toml" -> DrawnCargo
           [] OTHER -> {PlainText({})}

\* the number of candidate files found so far
Present(contents) == Cardinality({k \in 1..Len(contents) : contents[k] # None})

\* the repository whose files are drawn
Drawn == RepoDict("drawn", "Python", 120, 2, 0)

InitExtract ==
    /\ pc = "probe"
    /\ repos = <<Drawn>>
    /\ analyses = <<>>
    /\ analysis = get_repository_stats("drawn", "status", Drawn.size)
                  @@ InitialAnalysis(Drawn)
    /\ file_idx = 1
    /\ probed = NothingProbed
    /\ current_repo_size = Drawn.size
    /\ complexity_score = -1
    /\ aggregate = EmptyAggregate
    /\ card = [languages |-> <<>>, frameworks |-> <<>>]
    /\ token = EnvToken
    /\ pager = NoPager
    /\ exit_code = "running"

\* the iteration of the loop for a drawn content
ProbeDrawn ==
    /\ pc = "probe"
    /\ \E content \in DrawnContents(ProbeFiles[file_idx]) :
          /\ content = None \/ Present(probed.contents) < MaxFiles
          /\ ProbeStep(content)

NextExtract == ProbeDrawn

SpecExtract == InitExtract /\ [][NextExtract]_vars

----------------------------------------------------------------------------
(* Claims about the classifier *)

\* the labels of the category rules that read the frameworks list
FrontendLabels == {"React", "Vue.js", "Angular", "Static Site Generator"}
BackendLabels == {"Django", "Flask", "FastAPI", "Node.js Backend", "Gin (Go)", "Actix Web"}
DataLabels == {"Data Science", "Machine Learning"}

\* the smaller of two integers
Min(x, y) == IF x < y THEN x ELSE y

\* the score with every framework label counted once
DistinctLabelScore(a) ==
    Min(10 * Cardinality(DOMAIN a.languages), 30)
    + Min(15 * Cardinality(Elems(a.frameworks)), 45)
    + (IF a.size > 10000 THEN 30 ELSE IF a.size > 1000 THEN 15 ELSE 0)
    + (IF a.stars > 100 THEN 20 ELSE IF a.stars > 10 THEN 10 ELSE 0)

\* C1: whenever a repository has just been classified, the score computed equals
\* min(10 x languages, 30) + min(15 x distinct framework labels, 45) + size bonus
\* + popularity bonus, a label that occurs several times counting once.
C1_ScoreCountsDistinctLabels ==
    pc = "return" => complexity_score = DistinctLabelScore(analysis)

\* the bucket the thresholds 60 and 30 give
BucketOf(s) ==
    CASE s >= 60 -> "high"
      [] s >= 30 /\ s < 60 -> "medium"
      [] s < 30 -> "low"

\* C2: the complexity is "high" for a score of 60 or more, "medium" from 30 to 59
\* and "low" below 30, for the score just computed and for every score from 0 to
\* 125 (so 60 is high, 59 medium, 30 medium, 29 low).
C2_BucketThresholds ==
    /\ pc = "return" => analysis.complexity = BucketOf(complexity_score)
    /\ \A s \in 0..125 : ComplexityOf(s) = BucketOf(s)
    /\ ComplexityOf(60) = "high" /\ ComplexityOf(59) = "medium"
    /\ ComplexityOf(30) = "medium" /\ ComplexityOf(29) = "low"

\* C2 witness: a record scoring exactly 60 has been classified "high"
C2_Witness ==
    pc = "return" /\ complexity_score = 60 /\ analysis.complexity = "high"

\* the label of the first matching rule of the seven, rule 4 reading the tool label
\* "Docker" as the extractor records it
FirstMatchingRule(a) ==
    IF Elems(a.frameworks) \cap FrontendLabels # {} THEN "frontend"
    ELSE IF Elems(a.frameworks) \cap BackendLabels # {} THEN "backend"
    ELSE IF Elems(a.frameworks) \cap DataLabels # {} THEN "data/ml"
    ELSE IF InList("Docker", a.tools) THEN "devops"
    ELSE IF Lower(a.primary_language) \in {"javascript", "typescript", "html", "css"}
        THEN "frontend"
    ELSE IF Lower(a.primary_language) \in {"python", "java", "go", "rust", "c++"}
        THEN "backend"
    ELSE "other"

\* C3: for every frameworks list, tools list and primary language, the category
\* assigned is the label of the first matching rule in the order frontend
\* framework, backend framework, data/ml framework, Docker tool, frontend
\* language, backend language, other.
C3_FirstMatchingRuleWins ==
    pc = "return" => analysis.category = FirstMatchingRule(analysis)

\* C4: every analysis the run produces whose tools contain "Docker" and whose
\* frameworks contain no frontend, backend or data/ml label has category "devops".
C4_DockerToolIsDevops ==
    \A i \in 1..Len(analyses) :
        (/\ InList("Docker", analyses[i].tools)
         /\ Elems(analyses[i].frameworks)
                \cap (FrontendLabels \cup BackendLabels \cup DataLabels) = {})
        => analyses[i].category = "devops"

\* C5: a record whose frameworks list contains a frontend framework label is
\* classified "frontend", whatever its primary language, tools and other labels.
C5_FrontendFrameworkWins ==
    (pc = "return" /\ Elems(analysis.frameworks) \cap FrontendLabels # {})
    => analysis.category = "frontend"

\* C5 witness: React together with Node.js Backend, a Docker tool and primary
\* language Python, classified "frontend"
C5_Witness ==
    /\ pc = "return"
    /\ InList("React", analysis.frameworks)
    /\ InList("Node.js Backend", analysis.frameworks)
    /\ InList("Docker", analysis.tools)
    /\ analysis.primary_language = "Python"
    /\ analysis.category = "frontend"

\* the record of a repository about which nothing was learnt
IsEmptyRecord(a) ==
    /\ a.languages = <<>> /\ a.size = 0 /\ a.stars = 0
    /\ a.primary_language = "Unknown" /\ a.frameworks = <<>> /\ a.tools = <<>>

\* C6: a record with empty languages, size 0, stars 0, primary language "Unknown",
\* no frameworks and no tools is classified complexity "low", category "other".
C6_EmptyRecordIsLowOther ==
    (pc = "return" /\ IsEmptyRecord(analysis))
    => (analysis.complexity = "low" /\ analysis.category = "other"
        /\ complexity_score = 0)

\* C6 witness: such a record has been classified
C6_Witness ==
    pc = "return" /\ IsEmptyRecord(analysis) /\ analysis.complexity = "low"

\* C7: for the repository with primary language TypeScript, size 15000, stars
\* 150, languages {TypeScript: 90000, CSS: 10000} and, of the probed files, only a
\* package.json whose dependencies hold react alone, the analysis about to be
\* returned has frameworks [React], tools [npm/yarn], score 85, complexity "high"
\* and category "frontend".
C7_Scenario ==
    /\ pc = "return"
    /\ analysis.primary_language = "TypeScript"
    /\ analysis.size = 15000
    /\ analysis.stars = 150
    /\ probed.languages = [TypeScript |-> 90000, CSS |-> 10000]
    /\ probed.contents = <<JsonText("object", Obj({"react"}), Obj({})),
                           None, None, None, None, None>>

C7_EndToEnd ==
    C7_Scenario =>
        /\ analysis.languages = probed.languages
        /\ analysis.frameworks = <<"React">>
        /\ analysis.tools = <<"npm/yarn">>
        /\ complexity_score = 20 + 15 + 30 + 20
        /\ analysis.complexity = "high"
        /\ analysis.category = "frontend"

\* C7 witness: the scenario has run and scored 85
C7_Witness == C7_Scenario /\ complexity_score = 85

\* two records agree on what the classifier is meant to read
SameInputs(a, b) ==
    /\ a.languages = b.languages /\ a.frameworks = b.frameworks /\ a.tools = b.tools
    /\ a.size = b.size /\ a.stars = b.stars
    /\ a.primary_language = b.primary_language

\* C8: any two classified records that agree on languages, frameworks, tools,
\* size, stars and primary language carry the same complexity and category,
\* whatever complexity and category each record held before its run and whatever
\* current_repo_size the analyzer held.
C8_SameInputsSameResult ==
    \A i, j \in 1..Len(analyses) :
        SameInputs(analyses[i], analyses[j])
        => /\ analyses[i].complexity = analyses[j].complexity
           /\ analyses[i].category = analyses[j].category

\* C8 witness: a record of size 0 classified twice, the second time in an analyzer
\* whose current_repo_size was left at 15000, with the same result
C8_Witness ==
    /\ Len(analyses) = 2
    /\ SameInputs(analyses[1], analyses[2])
    /\ analyses[1].size = 0
    /\ current_repo_size = 15000
    /\ analyses[2].complexity = analyses[1].complexity
    /\ analyses[2].category = "frontend"

----------------------------------------------------------------------------
(* Claims about the statistics fold *)

\* the lists that hold the elements of lst in another order
PermutationsOf(lst) ==
    LET n == Len(lst)
        bijections == {f \in [1..n -> 1..n] : \A x, y \in 1..n : f[x] = f[y] => x = y}
    IN  {[k \in 1..n |-> lst[f[k]]] : f \in bijections}

\* C9: once the report's statistics are computed, folding any permutation of the
\* analyses gives the same language totals, framework counts, category counts,
\* complexity counts, total stars and total forks.
C9_FoldOrderIndependent ==
    pc = "card" =>
        \A lst \in PermutationsOf(analyses) : PortfolioAggregate(lst) = aggregate

\* C9 witness: statistics computed over two different analyses that share a
\* language and differ in its byte count
C9_Witness ==
    /\ pc = "card"
    /\ Len(analyses) = 2
    /\ "TypeScript" \in DOMAIN analyses[1].languages
    /\ "TypeScript" \in DOMAIN analyses[2].languages
    /\ analyses[1].languages["TypeScript"] # analyses[2].languages["TypeScript"]
    /\ aggregate.total_repos = 2

\* the value a Counter gives for key k: 0 for a missing key
CounterGet(c, k) == IF k \in DOMAIN c THEN c[k] ELSE 0

\* the bytes of language l in analysis a, 0 when absent
BytesOf(a, l) == CounterGet(a.languages, l)

\* sum of f over the first n analyses
RECURSIVE SumOver(_, _)
SumOver(f, n) == IF n = 0 THEN 0 ELSE f[n] + SumOver(f, n - 1)

\* the languages any repository of the account reports, and one that none does
KnownLanguages ==
    UNION {DOMAIN WorldLanguages(r.name) : r \in WorldRepos} \cup {"Rust"}

\* C10: the language totals are sums of bytes over all analyses (0 for a language
\* no analysis has), the total stars and forks are the sums of the repositories'
\* stars and forks; the same holds of the language Counter built for the card.
C10_TotalsAreSums ==
    LET n == Len(analyses)
        bytes(l) == SumOver([i \in 1..n |-> BytesOf(analyses[i], l)], n)
    IN  /\ pc = "card" =>
            /\ \A l \in KnownLanguages : CounterGet(aggregate.languages, l) = bytes(l)
            /\ DOMAIN aggregate.languages \subseteq KnownLanguages
            /\ aggregate.total_stars = SumOver([i \in 1..n |-> analyses[i].stars], n)
            /\ aggregate.total_forks = SumOver([i \in 1..n |-> analyses[i].forks], n)
        /\ (pc = "exited" /\ exit_code = "0") =>
            /\ \A l \in KnownLanguages : CounterGet(card.languages, l) = bytes(l)
            /\ DOMAIN card.languages \subseteq KnownLanguages

\* C10 witness: two repositories report TypeScript, 90000 and 700 bytes, and the
\* total is 90700; the stars add up to 161
C10_Witness ==
    /\ pc = "card"
    /\ Len(analyses) = 2
    /\ CounterGet(aggregate.languages, "TypeScript") = 90700
    /\ aggregate.total_stars = 161

----------------------------------------------------------------------------
(* C11: the framework, category and complexity counts of the report *)

\* the number of analyses of lst whose frameworks list contains F
ReposWith(F, lst) ==
    Cardinality({i \in 1..Len(lst) : InList(F, lst[i].frameworks)})

\* every label the extractor can emit
KnownFrameworks ==
    {"React", "Vue.js", "Angular", "Node.js Backend", "Static Site Generator",
     "Django", "Flask", "FastAPI", "Streamlit", "Data Science", "Machine Learning",
     "Gin (Go)", "Gorilla Mux", "Actix Web", "Rocket"}

KnownCategories ==
    {"frontend", "backend", "data/ml", "devops", "other"}

KnownComplexities == {"low", "medium", "high"}

\* the sum of counter c over the finite key set S
RECURSIVE SumKeys(_, _)
SumKeys(c, S) ==
    IF S = {} THEN 0
    ELSE LET k == CHOOSE x \in S : TRUE
         IN  CounterGet(c, k) + SumKeys(c, S \ {k})

\* C11: in the report, the count of every framework label is the number of
\* repositories whose frameworks list contains it, however often it occurs in one
\* list, and the category counts and the complexity counts each sum to the number
\* of analyses
C11_CountsArePerRepository ==
    pc = "card" =>
        /\ \A F \in KnownFrameworks :
              CounterGet(aggregate.frameworks, F) = ReposWith(F, analyses)
        /\ SumKeys(aggregate.categories, KnownCategories) = Len(analyses)
        /\ SumKeys(aggregate.complexities, KnownComplexities) = Len(analyses)

----------------------------------------------------------------------------
(* Claims about the extractor *)

\* s is an initial segment of t
IsPrefix(s, t) == Len(s) <= Len(t) /\ SubSeq(t, 1, Len(s)) = s

\* the k-th candidate file has been probed and its content was a non-empty text
Read(k) == Len(probed.contents) >= k /\ Truthy(probed.contents[k])

\* a package.json declaring express was applied, then a requirements.txt
\* declaring flask
C12_Scenario ==
    /\ pc \in {"probe", "classify"}
    /\ Read(1) /\ Read(2)
    /\ probed.contents[1].json = "object"
    /\ "express" \in probed.contents[1].dependencies.keys
    /\ \E k \in 1..Len(probed.contents[2].lines) :
          probed.contents[2].lines[k] = <<"Flask", "=", "=", "2.0">>

\* C12: after a package.json declaring express and a requirements.txt declaring
\* flask, frameworks holds both 'Node.js Backend' and 'Flask' and tools both
\* 'npm/yarn' and 'pip'; and no iteration over a candidate file removes or
\* replaces a label that an earlier file contributed
C12_ExtractorIsAdditive ==
    /\ [](C12_Scenario =>
            /\ InList("Node.js Backend", analysis.frameworks)
            /\ InList("Flask", analysis.frameworks)
            /\ InList("npm/yarn", analysis.tools)
            /\ InList("pip", analysis.tools))
    /\ [][pc = "probe" =>
            IF pc' = "loop"
            THEN analysis.frameworks = <<>> /\ analysis.tools = <<>>
            ELSE /\ IsPrefix(analysis.frameworks, analysis'.frameworks)
                 /\ IsPrefix(analysis.tools, analysis'.tools)]_vars

C12_Witness ==
    /\ C12_Scenario
    /\ analysis.frameworks = <<"Node.js Backend", "Flask">>
    /\ analysis.tools = <<"npm/yarn", "pip">>

\* C13: when package.json parses, a marker package name that is a key of
\* "dependencies" or of "devDependencies" yields its label; react listed only
\* under devDependencies yields 'React'
C13_DevDependenciesCount ==
    (pc \in {"probe", "classify"} /\ Read(1)
       /\ probed.contents[1].json = "object"
       /\ probed.contents[1].dependencies.obj
       /\ probed.contents[1].devDependencies.obj) =>
        LET keys == probed.contents[1].dependencies.keys
                    \cup probed.contents[1].devDependencies.keys
        IN  /\ keys \cap {"react", "@types/react"} # {}
                 => InList("React", analysis.frameworks)
            /\ keys \cap {"vue", "nuxt"} # {}
                 => InList("Vue.js", analysis.frameworks)
            /\ keys \cap {"angular", "@angular/core"} # {}
                 => InList("Angular", analysis.frameworks)
            /\ keys \cap {"express", "koa", "fastify"} # {}
                 => InList("Node.js Backend", analysis.frameworks)
            /\ keys \cap {"next", "gatsby"} # {}
                 => InList("Static Site Generator", analysis.frameworks)

\* the labels of the marker sets that keys intersects
MarkerLabels(keys) ==
    {l \in {"React", "Vue.js", "Angular", "Node.js Backend", "Static Site Generator"} :
        keys \cap (CASE l = "React" -> {"react", "@types/react"}
                     [] l = "Vue.js" -> {"vue", "nuxt"}
                     [] l = "Angular" -> {"angular", "@angular/core"}
                     [] l = "Node.js Backend" -> {"express", "koa", "fastify"}
                     [] OTHER -> {"next", "gatsby"}) # {}}

\* the keys of the "dependencies" object of a parsed package.json, none when the
\* parsed value has no such object
DependencyKeys(content) ==
    IF content.json = "object" /\ content.dependencies.obj
    THEN content.dependencies.keys
    ELSE {}

\* lst holds each of its elements once
NoDuplicates(lst) == Cardinality(Elems(lst)) = Len(lst)

\* C14: right after a non-empty package.json was handled: when it is not valid
\* JSON nothing was raised and no label was added; when it parses, tools is
\* exactly ['npm/yarn'] and frameworks holds, once each, exactly the labels of the
\* marker sets that intersect the dependency keys
C14_PackageJsonLabels ==
    (Len(probed.contents) = 1 /\ Read(1)) =>
        /\ pc = "probe"
        /\ IF probed.contents[1].json = "invalid"
           THEN analysis.frameworks = <<>> /\ analysis.tools = <<>>
           ELSE /\ analysis.tools = <<"npm/yarn">>
                /\ NoDuplicates(analysis.frameworks)
                /\ Elems(analysis.frameworks)
                     = MarkerLabels(DependencyKeys(probed.contents[1]))

\* C15: whatever its manifests contain, the analysis of a repository keeps the
\* metadata fetched for it: a manifest that parses to an unexpected shape costs
\* that manifest's labels only
C15_MalformedManifestIsLocal ==
    \A i \in 1..Len(analyses) :
        /\ analyses[i].name = repos[i].name
        /\ analyses[i].size = repos[i].size
        /\ analyses[i].stars = repos[i].stargazers_count
        /\ analyses[i].forks = repos[i].forks_count
        /\ analyses[i].primary_language
             = (IF repos[i].language = "" THEN "Unknown" ELSE repos[i].language)

\* the positions of line where one of ==, >=, ~= starts
OperatorStarts(line) ==
    {k \in 1..(Len(line) - 1) : line[k] \in {"=", ">", "~"} /\ line[k + 1] = "="}

\* the smallest element of a non-empty set of integers
Least(S) == CHOOSE k \in S : \A h \in S : k <= h

\* line cut at the first occurrence of ==, >= or ~=, trimmed
NameAtFirstOperator(line) ==
    IF OperatorStarts(line) = {} THEN Strip(line)
    ELSE Strip(SubSeq(line, 1, Least(OperatorStarts(line)) - 1))

\* the same, except that a > or ~ standing immediately before the first == of
\* the line is kept when no operator starts before it
NameCutInTurn(line) ==
    LET starts == OperatorStarts(line)
        equals == {k \in starts : line[k] = "="}
    IN  IF starts = {} THEN Strip(line)
        ELSE IF equals # {} /\ Least(starts) = Least(equals) - 1
             THEN Strip(SubSeq(line, 1, Least(equals) - 1))
        ELSE Strip(SubSeq(line, 1, Least(starts) - 1))

\* the label of a bare package name by exact match, "" when the table has none
TableLabel(package) ==
    CASE package \in {<<"django">>, <<"Django">>} -> "Django"
      [] package \in {<<"flask">>, <<"Flask">>} -> "Flask"
      [] package \in {<<"fastapi">>, <<"FastAPI">>} -> "FastAPI"
      [] package = <<"streamlit">> -> "Streamlit"
      [] package \in {<<"pandas">>, <<"numpy">>, <<"scipy">>} -> "Data Science"
      [] package \in {<<"tensorflow">>, <<"torch">>, <<"pytorch">>} -> "Machine Learning"
      [] OTHER -> ""

\* the labels of a sequence of package names, in order, one per matching name
LabelsOf(packages) ==
    LET Matched(l) == l # ""
    IN  SelectSeq([k \in 1..Len(packages) |-> TableLabel(packages[k])], Matched)

\* the step is the iteration over a requirements.txt that was read as non-empty
RequirementsStep ==
    /\ pc = "probe" /\ file_idx = 2
    /\ Len(probed'.contents) = 2 /\ Truthy(probed'.contents[2])

\* short lines over a package name, the operator characters and a blank
ShortLines == SeqsUpTo({"flask", "=", ">", "~", " "}, MaxLines + 1)

\* C16 as stated: the iteration over requirements.txt appends 'pip' once and,
\* for each line in order, the label matching the line cut at the first
\* occurrence of ==, >= or ~= and trimmed
C16_CutAtFirstOperator ==
    [][RequirementsStep =>
        LET lines == probed'.contents[2].lines
        IN  /\ analysis'.tools = analysis.tools \o <<"pip">>
            /\ analysis'.frameworks = analysis.frameworks
                 \o LabelsOf([k \in 1..Len(lines) |-> NameAtFirstOperator(lines[k])])]_vars

\* C16 (amended): the iteration over requirements.txt appends 'pip' once and, for
\* each line in order, the label matching the line cut at its first ==, then at
\* the first >= of what is left, then at the first ~= of what is left, and
\* trimmed: the cut at the first of the three operators, except that a > or ~
\* immediately before the first == stays in the name. The second conjunct
\* compares the two descriptions of the name on every short line; it does not
\* depend on the state and is evaluated where the loop is entered.
C16_CutInTurn ==
    /\ [][RequirementsStep =>
            LET lines == probed'.contents[2].lines
            IN  /\ analysis'.tools = analysis.tools \o <<"pip">>
                /\ analysis'.frameworks = analysis.frameworks
                     \o LabelsOf([k \in 1..Len(lines) |-> NameCutInTurn(lines[k])])]_vars
    /\ [](probed.contents = <<>> =>
            \A line \in ShortLines : PackageOf(line) = NameCutInTurn(line))

C16_Witness ==
    /\ pc = "probe" /\ file_idx = 3
    /\ probed.contents[1] = None
    /\ probed.contents[2]
         = LinesText(<< <<" ", "fastapi", " ", ">", "=", "0.1">>,
                        <<"flask", ">", "=", "=", "2">> >>)
    /\ analysis.frameworks = <<"FastAPI">>
    /\ analysis.tools = <<"pip">>

\* the marker substring of a go.mod or Cargo.toml label
MarkerOf(label) ==
    CASE label = "Gin (Go)" -> "gin-gonic/gin"
      [] label = "Gorilla Mux" -> "gorilla/mux"
      [] label = "Actix Web" -> "actix-web"
      [] label = "Rocket" -> "rocket"

\* those of labels whose marker substring occurs in the text
LabelsFound(labels, content) ==
    LET Occurs(l) == MarkerOf(l) \in content.markers
    IN  SelectSeq(labels, Occurs)

\* the step is the iteration over the k-th candidate file, read as non-empty
ReadStep(k) ==
    /\ pc = "probe" /\ file_idx = k
    /\ Len(probed'.contents) = k /\ Truthy(probed'.contents[k])

\* C17: the iteration over go.mod appends 'Go Modules' once and the labels
\* 'Gin (Go)' and 'Gorilla Mux' whose marker substring occurs in the content, both
\* when both occur; the iteration over Cargo.toml does the same with 'Cargo',
\* 'Actix Web' and 'Rocket'
C17_MarkerSubstrings ==
    [][/\ ReadStep(3) =>
            /\ analysis'.tools = analysis.tools \o <<"Go Modules">>
            /\ analysis'.frameworks = analysis.frameworks
                 \o LabelsFound(<<"Gin (Go)", "Gorilla Mux">>, probed'.contents[3])
       /\ ReadStep(4) =>
            /\ analysis'.tools = analysis.tools \o <<"Cargo">>
            /\ analysis'.frameworks = analysis.frameworks
                 \o LabelsFound(<<"Actix Web", "Rocket">>, probed'.contents[4])]_vars

C17_Witness ==
    /\ pc = "probe" /\ file_idx = 5
    /\ probed.contents[3] = PlainText({"gin-gonic/gin", "gorilla/mux"})
    /\ probed.contents[4] = PlainText({})
    /\ analysis.frameworks = <<"Gin (Go)", "Gorilla Mux">>
    /\ analysis.tools = <<"Go Modules", "Cargo">>

\* C18: when all six candidate files have been probed, tools holds 'Docker'
\* exactly when get_file_content read a Dockerfile and 'Docker Compose' exactly
\* when it read a docker-compose.yml, and the two files add no framework label
C18_DockerFilesGiveTools ==
    pc = "classify" =>
        /\ probed.contents[6] # None <=> InList("Docker", analysis.tools)
        /\ probed.contents[5] # None <=> InList("Docker Compose", analysis.tools)
        /\ (\A k \in 1..4 : probed.contents[k] = None) => analysis.frameworks = <<>>

----------------------------------------------------------------------------
(* Claims about the run over the fetched repositories *)

\* the file is not found, is no regular file, is 50000 bytes or larger, or its
\* base64 content cannot be decoded
Unreadable(f) ==
    \/ ~f.found
    \/ f.type # "file"
    \/ f.size >= 50000
    \/ ~f.decodes

\* C19: in every iteration of the loop over the candidate files, a file that is
\* not found, no regular file, too large or undecodable, and any file whose
\* request fails, is returned as None; and after None the analysis is unchanged
\* and the loop goes on to the next candidate file (to the classification after
\* the last)
C19_AbsentFilesAreSkipped ==
    [][(pc = "probe" /\ Len(probed'.contents) = file_idx) =>
        LET path == ProbeFiles[file_idx]
            content == probed'.contents[file_idx]
        IN  /\ Unreadable(WorldFile(analysis.name, path)) => content = None
            /\ get_file_content(analysis.name, path, FALSE) = None
            /\ content = None =>
                 /\ analysis' = analysis
                 /\ analyses' = analyses
                 /\ IF file_idx = Len(ProbeFiles)
                    THEN pc' = "classify"
                    ELSE pc' = "probe" /\ file_idx' = file_idx + 1]_vars

C19_Witness ==
    /\ pc = "classify"
    /\ analysis.name = "ops-box"
    /\ WorldFile("ops-box", "go.mod").size = 50000
    /\ probed.contents[3] = None
    /\ probed.contents[6] = PlainText({})
    /\ analysis.tools = <<"Docker">>

\* C20: once the list of repositories is fetched, no failure in the processing of
\* one repository aborts the run: it ends normally with one analysis per
\* repository, each carrying its repository's name, and a repository whose record
\* lacks owner or name has the default analysis
C20_FailureIsIsolated ==
    (pc = "exited" /\ repos # <<>>) =>
        /\ exit_code = "0"
        /\ Len(analyses) = Len(repos)
        /\ \A i \in 1..Len(analyses) :
              IF repos[i].has_owner /\ repos[i].has_name
              THEN analyses[i].name = repos[i].name
              ELSE /\ analyses[i].frameworks = <<>> /\ analyses[i].tools = <<>>
                   /\ analyses[i].languages = <<>> /\ analyses[i].size = 0
                   /\ analyses[i].stars = 0 /\ analyses[i].forks = 0
                   /\ analyses[i].primary_language = "Unknown"
                   /\ analyses[i].complexity = "low"
                   /\ analyses[i].category = "other"

\* neither --token nor GITHUB_TOKEN supplies a token
NoCredentials == ~token.arg /\ ~token.env

\* C21: a run without credentials never leaves its start: it has issued no
\* request and has no repository list, analysis, report or card, every step it
\* takes is the exit, and the exit status is 1
C21_NoTokenExitsAtStartup ==
    /\ [](NoCredentials =>
            /\ pc \in {"wrapper", "start", "exited"}
            /\ pc = "exited" => exit_code = "1"
            /\ repos = <<>> /\ analyses = <<>>
            /\ aggregate = EmptyAggregate
            /\ card = [languages |-> <<>>, frameworks |-> <<>>])
    /\ [][(NoCredentials /\ pc \in {"wrapper", "start"}) =>
            (pc' = "exited" /\ exit_code' = "1")]_vars

C21_Witness == NoCredentials /\ pc = "exited" /\ exit_code = "1"

\* C22: no step that fetches from GitHub (the user, the repository list, a
\* repository's languages, its root listing, a candidate file) ends the run
C22_FetchFailuresAreAbsorbed ==
    [][(pc \in {"get_user_info", "get_all_repositories", "languages", "stats", "probe"})
         => (pc' # "exited")]_vars

\* C23: every analysis carries a commit count, and it is max(1, size // 10) of
\* the size of its own repository
C23_CommitCountFromOwnSize ==
    \A i \in 1..Len(analyses) :
        /\ "commit_count" \in DOMAIN analyses[i]
        /\ analyses[i].commit_count
             = (IF repos[i].size \div 10 > 1 THEN repos[i].size \div 10 ELSE 1)

\* C24: the steps of a run follow each other in one order: for the next
\* repository of the list its languages, its root listing, its six candidate
\* files in the order of ProbeFiles, one classification after the sixth file,
\* and only then is its analysis appended, as the next element of the output
C24_SequentialInInputOrder ==
    [][/\ pc = "languages" => pc' = "stats"
       /\ pc = "stats" => (pc' = "probe" /\ file_idx' = 1)
       /\ pc = "probe" =>
             /\ Len(probed'.contents) = file_idx
             /\ IF file_idx < Len(ProbeFiles)
                THEN pc' = "probe" /\ file_idx' = file_idx + 1
                ELSE pc' = "classify"
       /\ pc = "classify" => (pc' = "return" /\ Len(probed.contents) = Len(ProbeFiles))
       /\ pc = "return" => pc' = "loop"
       /\ pc' = "languages" =>
             /\ pc = "loop"
             /\ analysis'.name = repos[Len(analyses) + 1].name
       /\ analyses' # analyses =>
             /\ pc = "return"
             /\ analyses' = Append(analyses, analysis)
             /\ analysis.name = repos[Len(analyses')].name
       /\ ProbeFiles = <<"package.json", "requirements.txt", "go.mod", "Cargo.toml",
                         "docker-compose.yml", "Dockerfile">>]_vars

\* C25: every finished analysis, and the one being returned, has a complexity
\* among low, medium, high and a category among frontend, backend, data/ml,
\* devops, other
C25_EnumFields ==
    LET WellFormed(a) ==
            /\ {"complexity", "category"} \subseteq DOMAIN a
            /\ a.complexity \in KnownComplexities
            /\ a.category \in KnownCategories
    IN  /\ \A i \in 1..Len(analyses) : WellFormed(analyses[i])
        /\ pc = "return" => WellFormed(analysis)

C25_Witness ==
    /\ Len(analyses) = 2
    /\ analyses[1] = DefaultAnalysis("odd")
    /\ analyses[2].category = "data/ml"
    /\ analyses[2].complexity = "medium"

----------------------------------------------------------------------------
\* Pagination: get_all_repositories (github_analyzer.py) and the dashboard's
\* get_user_repositories (main.py), one loop iteration per step.  The server's
\* answer to each request is an input: a status and, for a 200, a page of
\* between 0 and PerPage repositories.

\* the largest page the server sends (per_page is 100 in the source)
PerPage == 2

\* the largest max_repos / max_count drawn
MaxWanted == 3

ErrorStatuses == {403, 500}

\* a repository of a page is identified by the page and its place in it
PageResponse(status, page, size) ==
    [status |-> status,
     json   |-> IF status = 200 THEN [i \in 1..size |-> <<page, i>>] ELSE <<>>]

PageSlice_Whole(page_repos, n) == page_repos

\* page_repos[:n]
PageSlice(page_repos, n) ==
    IF n >= 0
    THEN SubSeq(page_repos, 1, Min(Len(page_repos), n))
    ELSE SubSeq(page_repos, 1, Len(page_repos) + n)

PagerStart(fn, max_repos) ==
    [state     |-> "loop",
     fn        |-> fn,
     max_repos |-> max_repos,
     page      |-> 1,
     requested |-> <<>>,
     received  |-> <<>>,
     repos     |-> <<>>]

\* one evaluation of the while test and, when it holds, one pass of the body;
\* on_error is what a non-200 answer leads to
PageIteration(on_error) ==
    /\ pager.state = "loop"
    /\ IF Len(pager.repos) < pager.max_repos
       THEN \E status \in {200} \cup ErrorStatuses, size \in 0..PerPage :
              /\ status # 200 => size = 0
              /\ LET response == PageResponse(status, pager.page, size)
                     asked    == [pager EXCEPT !.requested = Append(@, pager.page),
                                               !.received  = Append(@, response)]
                 IN  pager' =
                       IF response.status # 200
                       THEN [asked EXCEPT !.state = on_error]
                       ELSE IF response.json = <<>>
                       THEN [asked EXCEPT !.state = "returned"]
                       ELSE [asked EXCEPT
                               !.repos = @ \o PageSlice(response.json,
                                                        pager.max_repos - Len(@)),
                               !.page  = @ + 1]
       ELSE pager' = [pager EXCEPT !.state = "returned"]
    /\ UNCHANGED <<pc, token, repos, analyses, analysis, file_idx, probed,
                   current_repo_size, complexity_score, aggregate, card, exit_code>>

\* raise_for_status() leaves the function with an exception
AnalyzerPage ==
    /\ pc = "pages"
    /\ pager.fn = "get_all_repositories"
    /\ PageIteration("raised")

\* st.error(...); break: the list collected so far is returned
DashboardPage ==
    /\ pc = "pages"
    /\ pager.fn = "get_user_repositories"
    /\ PageIteration("returned")

InitPages ==
    /\ pc = "pages"
    /\ token = EnvToken
    /\ pager \in {PagerStart(fn, m) :
                    fn \in {"get_all_repositories", "get_user_repositories"},
                    m \in -1..MaxWanted}
    /\ repos = <<>>
    /\ analyses = <<>>
    /\ analysis = NoAnalysis
    /\ file_idx = 0
    /\ probed = NothingProbed
    /\ current_repo_size = Unset
    /\ complexity_score = -1
    /\ aggregate = EmptyAggregate
    /\ card = [languages |-> <<>>, frameworks |-> <<>>]
    /\ exit_code = "running"

NextPages == AnalyzerPage \/ DashboardPage

\* the loop is the only thing the calling thread does until it ends
SpecPages == InitPages /\ [][NextPages]_vars /\ WF_vars(NextPages)

----------------------------------------------------------------------------
\* Pagination claim

RECURSIVE ItemsOf(_, _)
\* the repositories of the first n answers, in the order received
ItemsOf(received, n) ==
    IF n = 0 THEN <<>> ELSE ItemsOf(received, n - 1) \o received[n].json

Wanted == IF pager.max_repos > 0 THEN pager.max_repos ELSE 0

\* what holds of the loop at every moment
PagesInvariant ==
    LET n    == Len(pager.requested)
        all  == ItemsOf(pager.received, n)
        last == pager.received[n]
    IN  /\ Len(pager.received) = n
        /\ \A i \in 1..n : pager.requested[i] = i
        /\ pager.state = "loop" => pager.page = n + 1
        \* every answer but the last was a non-empty page that left the list
        \* short of max_repos
        /\ \A i \in 1..(n - 1) :
              /\ pager.received[i].status = 200
              /\ pager.received[i].json # <<>>
              /\ Len(ItemsOf(pager.received, i)) < pager.max_repos
        /\ Len(pager.repos) <= Wanted
        /\ pager.repos = SubSeq(all, 1, Min(Len(all), Wanted))
        /\ pager.max_repos <= 0 => (pager.requested = <<>> /\ pager.repos = <<>>)
        /\ pager.state = "returned" =>
              \/ Len(pager.repos) >= pager.max_repos
              \/ n > 0 /\ last.status = 200 /\ last.json = <<>>
              \/ n > 0 /\ last.status # 200 /\ pager.fn = "get_user_repositories"
        /\ pager.state = "raised" =>
              n > 0 /\ last.status # 200 /\ pager.fn = "get_all_repositories"
        /\ (n > 0 /\ last.status # 200) =>
              pager.state = IF pager.fn = "get_user_repositories"
                            THEN "returned" ELSE "raised"
        /\ (n > 0 /\ last.status = 200 /\ last.json = <<>>) => pager.state = "returned"

\* C26: both page loops request pages 1, 2, 3, ... in turn, stop at the first
\* empty page or once max_repos repositories are collected, never hold more
\* than max_repos repositories (none, with no request, when max_repos <= 0),
\* keep them in the order received, and always end; on a non-200 answer the
\* dashboard returns what it has and the analyzer raises
C26_Pagination ==
    /\ [](pc = "pages" => PagesInvariant)
    /\ <>(pc = "pages" => pager.state # "loop")

\* the second page is cut to fit max_repos
C26_Witness ==
    /\ pc = "pages"
    /\ pager.fn = "get_all_repositories"
    /\ pager.state = "returned"
    /\ pager.max_repos = 3
    /\ pager.requested = <<1, 2>>
    /\ Len(pager.received[2].json) = 2
    /\ pager.repos = << <<1, 1>>, <<1, 2>>, <<2, 1>> >>

----------------------------------------------------------------------------
\* Range of the complexity score

\* C27: the score is the sum of a language term in {0,10,20,30}, a framework
\* term in {0,15,30,45}, a size term in {0,15,30} and a popularity term in
\* {0,10,20}: a multiple of 5 from 0 to 125, never 29 or 59, so that a low
\* record scores at most 25, a medium one from 30 to 55 and a high one 60 or more
C27_ScoreRange ==
    pc = "return" =>
       /\ complexity_score \in 0..125
       /\ complexity_score % 5 = 0
       /\ complexity_score \notin {29, 59}
       /\ \E l \in {0, 10, 20, 30}, f \in {0, 15, 30, 45},
             s \in {0, 15, 30}, p \in {0, 10, 20} :
             /\ complexity_score = l + f + s + p
             /\ LET lang_count == Cardinality(DOMAIN analysis.languages)
                IN  l = 10 * lang_count \/ (l = 30 /\ lang_count > 3)
             /\ LET framework_count == Len(analysis.frameworks)
                IN  f = 15 * framework_count \/ (f = 45 /\ framework_count > 3)
             /\ (s = 30) = (analysis.size > 10000)
             /\ (s = 15) = (analysis.size > 1000 /\ analysis.size <= 10000)
             /\ (p = 20) = (analysis.stars > 100)
             /\ (p = 10) = (analysis.stars > 10 /\ analysis.stars <= 100)
       /\ analysis.complexity = "low" => complexity_score <= 25
       /\ analysis.complexity = "medium" => complexity_score \in 30..55
       /\ analysis.complexity = "high" => complexity_score >= 60

\* every term at its cap
C27_Witness ==
    /\ pc = "return"
    /\ complexity_score = 125
    /\ Cardinality(DOMAIN analysis.languages) > 3
    /\ Len(analysis.frameworks) >= 3

----------------------------------------------------------------------------
\* Frame of the extractor and of the classifier

\* the records a and b agree on every key outside S
SameOutside(S, a, b) ==
    /\ DOMAIN a = DOMAIN b
    /\ \A k \in DOMAIN a \ S : a[k] = b[k]

\* C28: a call of _analyze_file_content that returns only appends to the
\* lists frameworks and tools and leaves every other key as it was; with a
\* filename outside the six recognised names it changes nothing;
\* _estimate_complexity_and_category changes only complexity and category
C28_Frame ==
    [][/\ (pc = "probe" /\ pc' \in {"probe", "classify"}) =>
             /\ SameOutside({"frameworks", "tools"}, analysis, analysis')
             /\ IsPrefix(analysis.frameworks, analysis'.frameworks)
             /\ IsPrefix(analysis.tools, analysis'.tools)
             /\ LET content == probed'.contents[file_idx]
                IN  Truthy(content) =>
                       \A filename \in {"README.md", "pom.xml", "Gemfile"} :
                           _analyze_file_content(analysis, filename, content) = analysis
       /\ pc = "classify" =>
             SameOutside({"complexity", "category"}, analysis, analysis')]_vars

\* a record with two frameworks and two tools has been classified as a
\* medium backend
C28_Witness ==
    /\ pc = "return"
    /\ Len(analysis.frameworks) >= 2
    /\ Len(analysis.tools) >= 2
    /\ analysis.category = "backend"
    /\ analysis.complexity # "low"

----------------------------------------------------------------------------
\* Empty files

\* the candidate files read so far were all absent or empty
OnlyEmptyOrAbsent ==
    \A k \in 1..Len(probed.contents) : probed.contents[k] \in {None, EmptyText}

\* C29: a candidate file whose decoded content is the empty string is passed
\* over like an absent one: the step that reads it leaves the record as it was
\* and goes on to the next file, so that after reading only empty or absent
\* files the record has no tool and no framework label
C29_EmptyIsAbsent ==
    /\ [](pc \in {"probe", "classify"} /\ OnlyEmptyOrAbsent =>
             analysis.tools = <<>> /\ analysis.frameworks = <<>>)
    /\ [][(pc = "probe" /\ probed'.contents = Append(probed.contents, EmptyText)) =>
             /\ analysis' = analysis
             /\ analyses' = analyses
             /\ pc' = IF file_idx = Len(ProbeFiles) THEN "classify" ELSE "probe"
             /\ file_idx' = IF file_idx = Len(ProbeFiles) THEN 0 ELSE file_idx + 1]_vars

\* an empty requirements.txt and an empty Dockerfile were read and the record
\* reached the classifier without a label
C29_Witness ==
    /\ pc = "classify"
    /\ probed.contents[2] = EmptyText
    /\ probed.contents[6] = EmptyText
    /\ analysis.tools = <<>>

====
